---- MODULE Spec2Model ----
(***************************************************************************)
(* Authentication and authorization core of the ITI Examination System     *)
(* backend: password verification, JWT issue / decode, credential lookup,  *)
(* session extraction (get_current_user), the role gate (require_role),    *)
(* the HTTP handlers of backend/app/api/auth_api.py and the role-gated     *)
(* data endpoints of instructor_api.py and student_api.py.                 *)
(*                                                                         *)
(* Spec serves one request at a time; DataSpec is the data endpoints,      *)
(* PwSpec the two password functions called directly, ConcSpec two         *)
(* workers that interleave the steps of their requests.                    *)
(*                                                                         *)
(* Time is counted in ticks, TicksPerSec ticks to the second, so that the  *)
(* truncation of datetimes to whole seconds done by the JWT library is     *)
(* visible.  Optional values are sequences: <<>> is None, <<x>> is x.      *)
(***************************************************************************)
EXTENDS Integers, Sequences, FiniteSets, TLC

VARIABLES
    users,      \* Credential Store: user_id -> row of the user table
    now,        \* datetime.utcnow(), in ticks
    held,       \* the token the client holds (Optional), with its time of issue
    resp,       \* the request in service with its response (Optional), until
                \* the client has received it
    inflight,   \* the requests served concurrently: worker -> its frame
    sessions    \* how many sessions made by SessionLocal() are not closed

vars == <<users, now, held, resp, inflight, sessions>>

None == <<>>
Some(x) == <<x>>
IsNone(o) == o = <<>>
Get(o) == o[1]

----------------------------------------------------------------------------
(* Bounds of the model *)

TicksPerSec == 2    \* clock resolution
MaxExtra == 2       \* single ticks the clock makes before and after the long step

----------------------------------------------------------------------------
(* backend/app/auth.py: settings *)

SECRET_KEY == "your-secret-key-change-this-in-production"
ALGORITHM == "HS256"
ACCESS_TOKEN_EXPIRE_MINUTES == 60 * 24

\* backend/app/config/settings.py: the JWT fields of Settings; a field is
\* read from the environment (or .env) when it is set there, and has its
\* default otherwise
Settings(env) ==
    [jwt_secret |-> IF "JWT_SECRET" \in DOMAIN env THEN env.JWT_SECRET
                    ELSE "your-secret-key-change-in-production",
     jwt_algorithm |-> IF "JWT_ALGORITHM" \in DOMAIN env THEN env.JWT_ALGORITHM
                       ELSE "HS256",
     jwt_expires_minutes |-> IF "JWT_EXPIRES_MINUTES" \in DOMAIN env
                               THEN env.JWT_EXPIRES_MINUTES ELSE 1440]

Roles == {"Manager", "Instructor", "Student"}

\* timedelta(minutes = m) in ticks
timedelta_minutes(m) == m * 60 * TicksPerSec

\* timegm(dt.utctimetuple()): whole seconds, the sub-second part is dropped
timegm(t) == t \div TicksPerSec

----------------------------------------------------------------------------
(* Password Verifier.  A bcrypt hash string is modelled by the salt and    *)
(* the password bytes it was computed from; any other string is not a      *)
(* hash.  A password is a string, its bytes a sequence of one-character    *)
(* strings and, for a character outside ASCII, of the names of its bytes.  *)

EmptyHash == [salt |-> 0, pw |-> <<>>, valid |-> FALSE]          \* the string ""
MalformedHash == [salt |-> 0, pw |-> <<"x">>, valid |-> FALSE]   \* not a bcrypt hash

\* str.encode('utf-8')
utf8_char(c) == IF c = "é" THEN <<"C3", "A9">> ELSE <<c>>

RECURSIVE encode(_)
encode(s) ==
    IF Len(s) = 0 THEN <<>>
    ELSE utf8_char(SubSeq(s, 1, 1)) \o encode(SubSeq(s, 2, Len(s)))

\* bcrypt looks at no more than the first 72 bytes of a password
BCRYPT_MAX_BYTES == 72

hashpw(password, salt) ==
    [salt |-> salt,
     pw |-> SubSeq(password, 1, IF Len(password) < BCRYPT_MAX_BYTES
                                  THEN Len(password) ELSE BCRYPT_MAX_BYTES),
     valid |-> TRUE]

\* The bcrypt package is not pinned: a build before 5.0 hashes the first 72
\* bytes of a longer password, a build from 5.0 on raises ValueError for it.
BcryptBuilds == {"truncates", "refuses"}

bcrypt_hashpw(password, salt, build) ==
    IF build = "refuses" /\ Len(password) > BCRYPT_MAX_BYTES
        THEN [raised |-> TRUE, hash |-> EmptyHash]
        ELSE [raised |-> FALSE, hash |-> hashpw(password, salt)]

\* bcrypt.checkpw: ValueError("Invalid salt") on a string that is not a
\* bcrypt hash, else the password is hashed with the salt of the hash and
\* the two hashes are compared
bcrypt_checkpw(password, hashed_password, build) ==
    IF ~hashed_password.valid
        THEN [raised |-> TRUE, value |-> FALSE]
    ELSE LET ret == bcrypt_hashpw(password, hashed_password.salt, build) IN
        IF ret.raised
            THEN [raised |-> TRUE, value |-> FALSE]
            ELSE [raised |-> FALSE, value |-> ret.hash = hashed_password]

\* fault: the try / except around checkpw is missing
verify_password_uncaught(plain_password, hashed_password, build) ==
    bcrypt_checkpw(encode(plain_password), hashed_password, build)

\* verify_password with the exception it would let escape, if any: every
\* Exception is caught and gives False
verify_password_result(plain_password, hashed_password, build) ==
    LET checked == bcrypt_checkpw(encode(plain_password), hashed_password, build) IN
    IF checked.raised
        THEN [raised |-> FALSE, value |-> FALSE]
        ELSE [raised |-> FALSE, value |-> checked.value]

\* the builds agree on every password of at most 72 bytes
verify_password(plain_password, hashed_password) ==
    \A build \in BcryptBuilds :
        verify_password_result(plain_password, hashed_password, build).value

\* get_password_hash: gensalt() draws the salt; an exception of hashpw escapes
get_password_hash_result(password, salt, build) ==
    bcrypt_hashpw(encode(password), salt, build)

get_password_hash(password, salt) == hashpw(encode(password), salt)

----------------------------------------------------------------------------
(* Token Issuer / Verifier.                                                *)
(* A token string is either a JWS (header HS256, claims, signing key) or   *)
(* a string that does not parse as one.  The subject claim is a JSON       *)
(* value: absent, a number, a string of decimal digits, or another string. *)

SubAbsent == [kind |-> "absent", n |-> 0]
SubInt(n) == [kind |-> "int", n |-> n]
SubDigits(n) == [kind |-> "digits", n |-> n]
SubText == [kind |-> "text", n |-> 0]

Garbage == [form |-> "garbage", key |-> "", claims |-> <<>>]

\* An "exp" claim is absent (<<>>), a number of seconds (<<n>>), or a JSON
\* value that is no number and no string (null, a list, an object).
NonNumber == <<0, 0>>
IsNumber(exp) == Len(exp) = 1

\* jose.jwt.encode: a datetime claim is converted with timegm, then the
\* claims are signed with the key
jwt_encode(to_encode, key) ==
    [form |-> "jws", key |-> key,
     claims |-> Some([to_encode EXCEPT !.exp = Some(timegm(Get(@)))])]

create_access_token(data, expires_delta, utcnow) ==
    LET truthy == ~IsNone(expires_delta) /\ Get(expires_delta) # 0
        expire == IF truthy
                    THEN utcnow + Get(expires_delta)
                    ELSE utcnow + timedelta_minutes(ACCESS_TOKEN_EXPIRE_MINUTES)
        to_encode == [k \in DOMAIN data \cup {"exp"} |->
                         IF k = "exp" THEN Some(expire) ELSE data[k]]
    IN  jwt_encode(to_encode, SECRET_KEY)

\* fault: the signature is not verified
jwt_decode_no_verify(token, key, utcnow) ==
    IF token.form # "jws"
        THEN [ok |-> FALSE, err |-> "malformed", payload |-> <<>>]
    ELSE LET claims == Get(token.claims) IN
        IF claims.exp = NonNumber
            THEN [ok |-> FALSE, err |-> "TypeError", payload |-> <<>>]
        ELSE IF IsNumber(claims.exp) /\ Get(claims.exp) < timegm(utcnow)
            THEN [ok |-> FALSE, err |-> "expired", payload |-> <<>>]
        ELSE IF claims.sub.kind = "int"
            THEN [ok |-> FALSE, err |-> "subject-not-string", payload |-> <<>>]
        ELSE [ok |-> TRUE, err |-> "", payload |-> Some(claims)]

\* jose.jwt.decode(token, key, algorithms=[ALGORITHM]): parse, verify the
\* signature, then validate the registered claims: exp first, then sub
\* ("Subject must be a string.").  The expiry is read with int(claims["exp"]),
\* guarded against ValueError only: a value int() cannot take raises
\* TypeError, which is no JWTError; otherwise "exp < now" raises
\* ExpiredSignatureError.
jwt_decode(token, key, utcnow) ==
    IF token.form # "jws"
        THEN [ok |-> FALSE, err |-> "malformed", payload |-> <<>>]
    ELSE IF token.key # key
        THEN [ok |-> FALSE, err |-> "bad-signature", payload |-> <<>>]
    ELSE LET claims == Get(token.claims) IN
        IF claims.exp = NonNumber
            THEN [ok |-> FALSE, err |-> "TypeError", payload |-> <<>>]
        ELSE IF IsNumber(claims.exp) /\ Get(claims.exp) < timegm(utcnow)
            THEN [ok |-> FALSE, err |-> "expired", payload |-> <<>>]
        ELSE IF claims.sub.kind = "int"
            THEN [ok |-> FALSE, err |-> "subject-not-string", payload |-> <<>>]
        ELSE [ok |-> TRUE, err |-> "", payload |-> Some(claims)]

\* decode_access_token with the reason it prints; result is Optional TokenData.
\* JWTError and ValueError are caught and give None; any other exception
\* leaves the function (raised).
decode_outcome(token, utcnow) ==
    LET d == jwt_decode(token, SECRET_KEY, utcnow) IN
    IF ~d.ok
        THEN [result |-> None, reason |-> d.err, raised |-> d.err = "TypeError"]
    ELSE LET payload == Get(d.payload)
             user_id_str == payload.sub
         IN
        IF user_id_str.kind = "absent"
            THEN [result |-> None, reason |-> "missing-subject", raised |-> FALSE]
        ELSE IF user_id_str.kind # "digits"
            THEN [result |-> None, reason |-> "subject-not-integer",
                  raised |-> FALSE]
        ELSE [result |-> Some([user_id |-> user_id_str.n,
                               email |-> payload.email,
                               user_type |-> payload.user_type]),
              reason |-> "", raised |-> FALSE]

decode_access_token(token, utcnow) == decode_outcome(token, utcnow).result

----------------------------------------------------------------------------
(* Credential Store (SQL Server behind SQLAlchemy).  The stored           *)
(* procedures are not part of the Python sources; each lookup returns the  *)
(* row of the user table or no row.                                        *)

NoProfile == [intake_id |-> None, track_id |-> None, branch_id |-> None,
              track_name |-> None, branch_name |-> None,
              department_id |-> None, department_name |-> None]

UserTable ==
    <<[user_id |-> 1, email |-> "a@x.com", password_hash |-> get_password_hash("p1", 7),
       user_type |-> "Instructor", student_id |-> None, instructor_id |-> Some(10),
       is_active |-> TRUE, full_name |-> Some("Ann"),
       profile |-> [NoProfile EXCEPT !.department_id = Some(3),
                                     !.department_name = Some("Web")]],
      [user_id |-> 2, email |-> "b@x.com", password_hash |-> get_password_hash("p2", 8),
       user_type |-> "Student", student_id |-> Some(20), instructor_id |-> None,
       is_active |-> TRUE, full_name |-> None,
       profile |-> [NoProfile EXCEPT !.track_id = Some(5),
                                     !.track_name = Some("BI")]]>>

UserIds == 1..Len(UserTable)

sp_AuthenticateUser(store, email) ==
    IF \E i \in DOMAIN store : store[i].email = email
        THEN Some(store[CHOOSE i \in DOMAIN store : store[i].email = email])
        ELSE None

sp_GetUserByID(store, user_id) ==
    IF user_id \in DOMAIN store THEN Some(store[user_id]) ELSE None

\* UserInDB(...) as the two loaders build it: full_name falls back to "User"
UserInDB(row, password_hash) ==
    [user_id |-> row.user_id, email |-> row.email,
     password_hash |-> password_hash, user_type |-> row.user_type,
     student_id |-> row.student_id, instructor_id |-> row.instructor_id,
     is_active |-> row.is_active,
     full_name |-> IF ~IsNone(row.full_name) /\ Get(row.full_name) # ""
                     THEN Get(row.full_name) ELSE "User",
     profile |-> row.profile]

\* A request may meet a failing store: "lookup" makes the SELECT raise,
\* "update" the last-login EXEC, "commit" the commit after it.
Faults == {"none", "lookup", "update", "commit"}

get_user_from_db(email, store, fault) ==
    IF fault = "lookup"
        THEN None
    ELSE LET row == sp_AuthenticateUser(store, email) IN
        IF IsNone(row) THEN None
        ELSE Some(UserInDB(Get(row), Get(row).password_hash))

\* fault: the is_active check is missing
authenticate_user_no_active(email, password, store, fault) ==
    LET user == get_user_from_db(email, store, fault) IN
    IF IsNone(user) THEN None
    ELSE IF ~verify_password(password, Get(user).password_hash) THEN None
    ELSE user

\* authenticate_user after its lookup: user is what get_user_from_db returned
authenticate_found(user, password) ==
    IF IsNone(user) THEN None
    ELSE IF ~verify_password(password, Get(user).password_hash) THEN None
    ELSE IF ~Get(user).is_active THEN None
    ELSE user

authenticate_user(email, password, store, fault) ==
    authenticate_found(get_user_from_db(email, store, fault), password)

----------------------------------------------------------------------------
(* HTTP binding *)

Bearer == {<<"WWW-Authenticate", "Bearer">>}
NoHeaders == {}

HTTPException(status_code, detail, headers) ==
    [status |-> status_code, headers |-> headers, body |-> [detail |-> detail]]

credentials_exception ==
    HTTPException(401, "Could not validate credentials", Bearer)

\* OAuth2PasswordBearer(auto_error=True) when no bearer token is sent
not_authenticated == HTTPException(401, "Not authenticated", Bearer)

\* an exception no handler catches: Starlette answers 500 with a plain text
internal_server_error ==
    [status |-> 500, headers |-> NoHeaders, body |-> [text |-> "Internal Server Error"]]

\* the steps of get_current_user, with the points where faults are seeded:
\* active_check: is_active is tested; missing_exc: raised when no row is
\* found; trust_claims: user_type is taken from the token instead of the row
get_current_user_steps(auth, store, utcnow, fault, active_check, missing_exc,
                       trust_claims) ==
    IF IsNone(auth)
        THEN [ok |-> FALSE, exc |-> not_authenticated, user |-> None,
              calls |-> <<>>]
    ELSE LET decoded == decode_outcome(Get(auth), utcnow)
             token_data == decoded.result
             made == <<<<"sp_GetUserByID", Get(token_data).user_id>>>>
         IN
        IF decoded.raised
            THEN [ok |-> FALSE, exc |-> internal_server_error, user |-> None,
                  calls |-> <<>>]
        ELSE IF IsNone(token_data)
            THEN [ok |-> FALSE, exc |-> credentials_exception, user |-> None,
                  calls |-> <<>>]
        ELSE IF fault = "lookup"
            THEN [ok |-> FALSE, exc |-> credentials_exception, user |-> None,
                  calls |-> made]
        ELSE LET row == sp_GetUserByID(store, Get(token_data).user_id) IN
            IF IsNone(row)
                THEN [ok |-> FALSE, exc |-> missing_exc, user |-> None,
                      calls |-> made]
            ELSE LET loaded == UserInDB(Get(row), EmptyHash)
                     user == IF trust_claims /\ ~IsNone(Get(token_data).user_type)
                               THEN [loaded EXCEPT !.user_type =
                                        Get(Get(token_data).user_type)]
                               ELSE loaded
                 IN
                IF active_check /\ ~user.is_active
                    THEN [ok |-> FALSE, exc |-> credentials_exception,
                          user |-> None, calls |-> made]
                    ELSE [ok |-> TRUE, exc |-> <<>>, user |-> Some(user),
                          calls |-> made]

\* fault: the is_active check is missing
get_current_user_no_active(auth, store, utcnow, fault) ==
    get_current_user_steps(auth, store, utcnow, fault, FALSE,
                           credentials_exception, FALSE)

\* fault: an unknown subject id is answered with 404
get_current_user_404(auth, store, utcnow, fault) ==
    get_current_user_steps(auth, store, utcnow, fault, TRUE,
                           HTTPException(404, "User not found", NoHeaders), FALSE)

\* fault: the role is read from the token's claims
get_current_user_trusts_claims(auth, store, utcnow, fault) ==
    get_current_user_steps(auth, store, utcnow, fault, TRUE,
                           credentials_exception, TRUE)

\* get_current_user before its lookup: the token is taken from the header and
\* decoded; ok means that the lookup is to be made with token_data.user_id
get_current_user_decode(auth, utcnow) ==
    IF IsNone(auth)
        THEN [ok |-> FALSE, exc |-> not_authenticated, token_data |-> None]
    ELSE LET decoded == decode_outcome(Get(auth), utcnow) IN
        IF decoded.raised
            THEN [ok |-> FALSE, exc |-> internal_server_error, token_data |-> None]
        ELSE IF IsNone(decoded.result)
            THEN [ok |-> FALSE, exc |-> credentials_exception, token_data |-> None]
        ELSE [ok |-> TRUE, exc |-> <<>>, token_data |-> decoded.result]

\* get_current_user after its lookup: row is what fetchone() returned and
\* calls are the store calls made so far
get_current_user_found(row, calls) ==
    IF IsNone(row)
        THEN [ok |-> FALSE, exc |-> credentials_exception, user |-> None,
              calls |-> calls]
    ELSE LET user == UserInDB(Get(row), EmptyHash) IN
        IF ~user.is_active
            THEN [ok |-> FALSE, exc |-> credentials_exception, user |-> None,
                  calls |-> calls]
            ELSE [ok |-> TRUE, exc |-> <<>>, user |-> Some(user),
                  calls |-> calls]

\* fault: a lookup that finds no row is made a second time
get_current_user_retry(auth, store, utcnow, fault) ==
    LET before == get_current_user_decode(auth, utcnow)
        made == <<<<"sp_GetUserByID", Get(before.token_data).user_id>>>>
        row == sp_GetUserByID(store, Get(before.token_data).user_id)
    IN
    IF ~before.ok
        THEN [ok |-> FALSE, exc |-> before.exc, user |-> None, calls |-> <<>>]
    ELSE IF fault = "lookup"
        THEN [ok |-> FALSE, exc |-> credentials_exception, user |-> None,
              calls |-> made]
    ELSE get_current_user_found(row, IF IsNone(row) THEN made \o made ELSE made)

\* get_current_user; auth is the Optional token of the Authorization header
get_current_user(auth, store, utcnow, fault) ==
    LET before == get_current_user_decode(auth, utcnow)
        made == <<<<"sp_GetUserByID", Get(before.token_data).user_id>>>>
    IN
    IF ~before.ok
        THEN [ok |-> FALSE, exc |-> before.exc, user |-> None, calls |-> <<>>]
    ELSE IF fault = "lookup"
        THEN [ok |-> FALSE, exc |-> credentials_exception, user |-> None,
              calls |-> made]
    ELSE get_current_user_found(
            sp_GetUserByID(store, Get(before.token_data).user_id), made)

RECURSIVE join(_, _)
join(sep, items) ==
    IF items = <<>> THEN ""
    ELSE IF Len(items) = 1 THEN items[1]
    ELSE items[1] \o sep \o join(sep, Tail(items))

InList(x, items) == \E i \in 1..Len(items) : items[i] = x

\* fault: the detail names only the first required role
role_checker_first_role(allowed_roles, current) ==
    IF ~current.ok THEN current
    ELSE IF ~InList(Get(current.user).user_type, allowed_roles)
        THEN [ok |-> FALSE, user |-> None, calls |-> current.calls,
              exc |-> HTTPException(403,
                        "Access denied. Required role: " \o allowed_roles[1],
                        NoHeaders)]
        ELSE current

\* fault: a caller that did not resolve is answered by the gate
role_checker_unresolved(allowed_roles, current) ==
    IF ~current.ok \/ ~InList(Get(current.user).user_type, allowed_roles)
        THEN [ok |-> FALSE, user |-> None, calls |-> current.calls,
              exc |-> HTTPException(403,
                        "Access denied. Required role: " \o join(", ", allowed_roles),
                        NoHeaders)]
        ELSE current

\* require_role(allowed_roles) applied to the outcome of get_current_user
role_checker(allowed_roles, current) ==
    IF ~current.ok THEN current
    ELSE IF ~InList(Get(current.user).user_type, allowed_roles)
        THEN [ok |-> FALSE, user |-> None, calls |-> current.calls,
              exc |-> HTTPException(403,
                        "Access denied. Required role: " \o join(", ", allowed_roles),
                        NoHeaders)]
        ELSE current

\* fault: the response schema keeps the password_hash field of the Identity
UserResponse_with_hash(user) ==
    [user_id |-> user.user_id, email |-> user.email,
     user_type |-> user.user_type, full_name |-> user.full_name,
     student_id |-> user.student_id, instructor_id |-> user.instructor_id,
     profile |-> user.profile, password_hash |-> user.password_hash]

UserResponse(user) ==
    [user_id |-> user.user_id, email |-> user.email,
     user_type |-> user.user_type, full_name |-> user.full_name,
     student_id |-> user.student_id, instructor_id |-> user.instructor_id,
     profile |-> user.profile]

----------------------------------------------------------------------------
(* pydantic EmailStr of LoginRequest: a string without "@" is refused with *)
(* 422; otherwise the domain part is lower-cased.                          *)

LowerOf ==
    ("A" :> "a") @@ ("B" :> "b") @@ ("C" :> "c") @@ ("D" :> "d") @@ ("E" :> "e") @@
    ("F" :> "f") @@ ("G" :> "g") @@ ("H" :> "h") @@ ("I" :> "i") @@ ("J" :> "j") @@
    ("K" :> "k") @@ ("L" :> "l") @@ ("M" :> "m") @@ ("N" :> "n") @@ ("O" :> "o") @@
    ("P" :> "p") @@ ("Q" :> "q") @@ ("R" :> "r") @@ ("S" :> "s") @@ ("T" :> "t") @@
    ("U" :> "u") @@ ("V" :> "v") @@ ("W" :> "w") @@ ("X" :> "x") @@ ("Y" :> "y") @@
    ("Z" :> "z")

lower_char(c) == IF c \in DOMAIN LowerOf THEN LowerOf[c] ELSE c

RECURSIVE lower(_)
lower(s) ==
    IF Len(s) = 0 THEN ""
    ELSE lower_char(SubSeq(s, 1, 1)) \o lower(SubSeq(s, 2, Len(s)))

at_positions(s) == {i \in 2..(Len(s) - 1) : SubSeq(s, i, i) = "@"}

EmailStr(s) ==
    IF Cardinality(at_positions(s)) # 1
        THEN None
        ELSE LET at == CHOOSE i \in at_positions(s) : TRUE
             IN Some(SubSeq(s, 1, at - 1) \o lower(SubSeq(s, at, Len(s))))

validation_error == [status |-> 422, headers |-> NoHeaders,
                     body |-> [detail |-> "value is not a valid email address"]]

----------------------------------------------------------------------------
(* backend/app/config/database.py: get_db, the dependency that gives a     *)
(* handler its session.  open is the number of sessions not yet closed.    *)

SessionLocal(open) == open + 1
close(open) == open - 1

\* how the request left the handler and its dependencies: a return, an
\* HTTPException (or a validation error), or an exception nobody caught
exit_of(http) ==
    IF http.status = 200 THEN "return"
    ELSE IF http = internal_server_error THEN "Exception"
    ELSE "HTTPException"

\* fault: db.close() follows the yield without try / finally
get_db_exit_no_finally(open, exit) ==
    IF exit = "return" THEN close(open) ELSE open

\* get_db after its yield: "finally: db.close()"
get_db_exit(open, exit) == close(open)

\* get_db around a request that is served in one step
get_db(open, exit) == get_db_exit(SessionLocal(open), exit)

----------------------------------------------------------------------------
(* Handlers.  Each returns the response and the store calls it made.       *)

\* fault: the whole Identity, hash included, is put into the token
login_token_with_hash(user, utcnow) ==
    create_access_token(
        [sub |-> SubInt(user.user_id), email |-> Some(user.email),
         user_type |-> Some(user.user_type),
         password_hash |-> user.password_hash],
        Some(timedelta_minutes(ACCESS_TOKEN_EXPIRE_MINUTES)), utcnow)

login_token(user, utcnow) ==
    create_access_token(
        [sub |-> SubInt(user.user_id), email |-> Some(user.email),
         user_type |-> Some(user.user_type)],
        Some(timedelta_minutes(ACCESS_TOKEN_EXPIRE_MINUTES)), utcnow)

\* fault: an inactive account is told apart in the response
login_core_leaky(email, password, store, utcnow, fault) ==
    LET found == get_user_from_db(email, store, fault)
        user == authenticate_user(email, password, store, fault)
    IN
    IF IsNone(user)
        THEN [http |-> HTTPException(401,
                         IF ~IsNone(found) /\ ~Get(found).is_active
                            /\ verify_password(password, Get(found).password_hash)
                           THEN "Inactive user"
                           ELSE "Incorrect email or password",
                         Bearer),
              calls |-> <<<<"sp_AuthenticateUser", email>>>>,
              token |-> None, user |-> None]
    ELSE LET access_token == create_access_token(
                [sub |-> SubInt(Get(user).user_id), email |-> Some(Get(user).email),
                 user_type |-> Some(Get(user).user_type)],
                Some(timedelta_minutes(ACCESS_TOKEN_EXPIRE_MINUTES)), utcnow) IN
        [http |-> [status |-> 200, headers |-> NoHeaders,
                   body |-> [access_token |-> access_token,
                             token_type |-> "bearer",
                             user |-> UserResponse(Get(user))]],
         calls |-> <<<<"sp_AuthenticateUser", email>>,
                     <<"sp_UpdateLastLogin", Get(user).user_id>>>>
                   \o (IF fault = "update" THEN <<>> ELSE <<<<"commit", 0>>>>),
         token |-> Some(access_token), user |-> user]

\* fault: a failing last-login update fails the request
login_core_strict(email, password, store, utcnow, fault) ==
    LET user == authenticate_user(email, password, store, fault) IN
    IF IsNone(user)
        THEN [http |-> HTTPException(401, "Incorrect email or password", Bearer),
              calls |-> <<<<"sp_AuthenticateUser", email>>>>,
              token |-> None, user |-> None]
    ELSE IF fault \in {"update", "commit"}
        THEN [http |-> internal_server_error,
              calls |-> <<<<"sp_AuthenticateUser", email>>,
                          <<"sp_UpdateLastLogin", Get(user).user_id>>>>,
              token |-> None, user |-> None]
    ELSE LET access_token == login_token(Get(user), utcnow) IN
        [http |-> [status |-> 200, headers |-> NoHeaders,
                   body |-> [access_token |-> access_token,
                             token_type |-> "bearer",
                             user |-> UserResponse(Get(user))]],
         calls |-> <<<<"sp_AuthenticateUser", email>>,
                     <<"sp_UpdateLastLogin", Get(user).user_id>>,
                     <<"commit", 0>>>>,
         token |-> Some(access_token), user |-> user]

\* fault: the last-login update runs as soon as the record is found
login_core_touch_found(email, password, store, utcnow, fault) ==
    LET found == get_user_from_db(email, store, fault)
        user == authenticate_user(email, password, store, fault)
        touch == IF IsNone(found) THEN <<>>
                 ELSE <<<<"sp_UpdateLastLogin", Get(found).user_id>>>>
    IN
    IF IsNone(user)
        THEN [http |-> HTTPException(401, "Incorrect email or password", Bearer),
              calls |-> <<<<"sp_AuthenticateUser", email>>>> \o touch,
              token |-> None, user |-> None]
    ELSE LET access_token == login_token(Get(user), utcnow) IN
        [http |-> [status |-> 200, headers |-> NoHeaders,
                   body |-> [access_token |-> access_token,
                             token_type |-> "bearer",
                             user |-> UserResponse(Get(user))]],
         calls |-> <<<<"sp_AuthenticateUser", email>>>> \o touch
                   \o (IF fault = "update" THEN <<>> ELSE <<<<"commit", 0>>>>),
         token |-> Some(access_token), user |-> user]

\* login and login_form after authenticate_user returned user
login_reply(email, user, utcnow, fault) ==
    IF IsNone(user)
        THEN [http |-> HTTPException(401, "Incorrect email or password", Bearer),
              calls |-> <<<<"sp_AuthenticateUser", email>>>>,
              token |-> None, user |-> None]
    ELSE LET access_token == login_token(Get(user), utcnow) IN
        [http |-> [status |-> 200, headers |-> NoHeaders,
                   body |-> [access_token |-> access_token,
                             token_type |-> "bearer",
                             user |-> UserResponse(Get(user))]],
         calls |-> <<<<"sp_AuthenticateUser", email>>,
                     <<"sp_UpdateLastLogin", Get(user).user_id>>>>
                   \o (IF fault = "update" THEN <<>> ELSE <<<<"commit", 0>>>>),
         token |-> Some(access_token), user |-> user]

\* body shared by login and login_form once the email string is known
login_core(email, password, store, utcnow, fault) ==
    login_reply(email, authenticate_user(email, password, store, fault),
                utcnow, fault)

login(login_data, store, utcnow, fault) ==
    LET email == EmailStr(login_data.email) IN
    IF IsNone(email)
        THEN [http |-> validation_error, calls |-> <<>>, token |-> None,
              user |-> None]
        ELSE login_core(Get(email), login_data.password, store, utcnow, fault)

login_form(form_data, store, utcnow, fault) ==
    login_core(form_data.username, form_data.password, store, utcnow, fault)

\* the body of GET /me, given the outcome of its dependency
user_info(current) ==
    IF ~current.ok
        THEN [http |-> current.exc, user |-> None, calls |-> current.calls]
        ELSE [http |-> [status |-> 200, headers |-> NoHeaders,
                        body |-> UserResponse(Get(current.user))],
              user |-> current.user, calls |-> current.calls]

\* GET /me
get_current_user_info(auth, store, utcnow, fault) ==
    user_info(get_current_user(auth, store, utcnow, fault))

\* the body of a role-gated handler, given the outcome of its dependency
role_greeting(allowed_roles, current) ==
    IF ~current.ok
        THEN [http |-> current.exc, user |-> None, calls |-> current.calls]
        ELSE [http |-> [status |-> 200, headers |-> NoHeaders,
                        body |-> [message |-> "Hello " \o join("/", allowed_roles)
                                    \o " " \o Get(current.user).full_name \o "!"]],
              user |-> current.user, calls |-> current.calls]

\* GET /manager-only, /instructor-only, /student-only and any other handler
\* that depends on require_role(allowed_roles)
role_endpoint(allowed_roles, auth, store, utcnow, fault) ==
    role_greeting(allowed_roles,
                  role_checker(allowed_roles,
                               get_current_user(auth, store, utcnow, fault)))

\* POST /logout: nothing is done for a caller that resolved; the client is
\* to remove the token
logout(auth, store, utcnow, fault) ==
    LET current == get_current_user(auth, store, utcnow, fault) IN
    IF ~current.ok
        THEN [http |-> current.exc, user |-> None, store |-> store,
              calls |-> current.calls]
        ELSE [http |-> [status |-> 200, headers |-> NoHeaders,
                        body |-> [message |-> "Successfully logged out"]],
              user |-> current.user, store |-> store, calls |-> current.calls]

----------------------------------------------------------------------------
(* Data endpoints: backend/app/api/instructor_api.py, student_api.py and   *)
(* /api/test-db of main.py.  The stored procedures they call are not part  *)
(* of the Python sources; each returns the rows kept for its argument.     *)

sp_Instructor_GetMyCourses(inst_id) ==
    IF inst_id = 10 THEN <<[crs_id |-> 1, crs_name |-> "SQL"]>> ELSE <<>>

sp_Instructor_GetMyExams(inst_id) ==
    IF inst_id = 10 THEN <<[ex_id |-> 7, crs_name |-> "SQL"]>> ELSE <<>>

sp_ViewStudentGradesByEmail(email) ==
    IF email = "b@x.com" THEN <<[crs_name |-> "SQL", grade |-> "A"]>> ELSE <<>>

sp_Student_GetUpcomingExams(st_id) ==
    IF st_id = 20 THEN <<[ex_id |-> 7, crs_name |-> "SQL"]>> ELSE <<>>

\* str(e) of the exception a failing db.execute raises
ExceptionText ==
    "(pyodbc.OperationalError) ('08S01', 'Communication link failure') [SQL: EXEC]"

\* "not x" of an Optional[int]: None and 0 are falsy
Falsy(id) == IsNone(id) \/ Get(id) = 0

\* the try block of a data handler: the call, the rows, and on any exception
\* HTTPException(500, f"Failed to fetch {what}: {str(e)}"); calls are the
\* store calls the dependencies of the handler made before
fetch(calls, sp_name, arg, rows, what, fault) ==
    IF fault = "query"
        THEN [http |-> HTTPException(500, "Failed to fetch " \o what \o ": "
                                            \o ExceptionText, NoHeaders),
              calls |-> Append(calls, <<sp_name, arg>>)]
        ELSE [http |-> [status |-> 200, headers |-> NoHeaders,
                        body |-> [rows |-> rows]],
              calls |-> Append(calls, <<sp_name, arg>>)]

\* the dependency require_role([role]) of a data handler; "query" is a fault
\* of the handler's own call, not of the lookup of get_current_user
gate(role, auth, store, utcnow, fault) ==
    role_checker(<<role>>,
                 get_current_user(auth, store, utcnow,
                                  IF fault = "lookup" THEN "lookup" ELSE "none"))

get_instructor_courses(auth, store, utcnow, fault) ==
    LET current == gate("Instructor", auth, store, utcnow, fault) IN
    IF ~current.ok THEN [http |-> current.exc, calls |-> current.calls]
    ELSE LET instructor_id == Get(current.user).instructor_id IN
        IF Falsy(instructor_id)
            THEN [http |-> HTTPException(400,
                             "Instructor ID not found in user profile", NoHeaders),
                  calls |-> current.calls]
            ELSE fetch(current.calls, "sp_Instructor_GetMyCourses", Get(instructor_id),
                       sp_Instructor_GetMyCourses(Get(instructor_id)),
                       "courses", fault)

get_instructor_exams(auth, store, utcnow, fault) ==
    LET current == gate("Instructor", auth, store, utcnow, fault) IN
    IF ~current.ok THEN [http |-> current.exc, calls |-> current.calls]
    ELSE LET instructor_id == Get(current.user).instructor_id IN
        IF Falsy(instructor_id)
            THEN [http |-> HTTPException(400,
                             "Instructor ID not found in user profile", NoHeaders),
                  calls |-> current.calls]
            ELSE fetch(current.calls, "sp_Instructor_GetMyExams", Get(instructor_id),
                       sp_Instructor_GetMyExams(Get(instructor_id)),
                       "exams", fault)

\* fault: the email is read from the claims of the token
get_student_grades_from_claims(auth, store, utcnow, fault) ==
    LET current == gate("Student", auth, store, utcnow, fault) IN
    IF ~current.ok THEN [http |-> current.exc, calls |-> current.calls]
    ELSE LET student_email == Get(Get(Get(auth).claims).email) IN
        fetch(current.calls, "sp_ViewStudentGradesByEmail", student_email,
              sp_ViewStudentGradesByEmail(student_email), "grades", fault)

get_student_grades(auth, store, utcnow, fault) ==
    LET current == gate("Student", auth, store, utcnow, fault) IN
    IF ~current.ok THEN [http |-> current.exc, calls |-> current.calls]
    ELSE LET student_email == Get(current.user).email IN
        fetch(current.calls, "sp_ViewStudentGradesByEmail", student_email,
              sp_ViewStudentGradesByEmail(student_email), "grades", fault)

\* fault: the check of student_id is made inside the try block, whose
\* except clause rewrites every exception
get_upcoming_exams_check_in_try(auth, store, utcnow, fault) ==
    LET current == gate("Student", auth, store, utcnow, fault) IN
    IF ~current.ok THEN [http |-> current.exc, calls |-> current.calls]
    ELSE LET student_id == Get(current.user).student_id IN
        IF Falsy(student_id)
            THEN [http |-> HTTPException(500,
                             "Failed to fetch upcoming exams: 400: "
                                \o "Student ID not found in user profile",
                             NoHeaders),
                  calls |-> current.calls]
            ELSE fetch(current.calls, "sp_Student_GetUpcomingExams",
                       Get(student_id),
                       sp_Student_GetUpcomingExams(Get(student_id)),
                       "upcoming exams", fault)

get_upcoming_exams(auth, store, utcnow, fault) ==
    LET current == gate("Student", auth, store, utcnow, fault) IN
    IF ~current.ok THEN [http |-> current.exc, calls |-> current.calls]
    ELSE LET student_id == Get(current.user).student_id IN
        IF Falsy(student_id)
            THEN [http |-> HTTPException(400,
                             "Student ID not found in user profile", NoHeaders),
                  calls |-> current.calls]
            ELSE fetch(current.calls, "sp_Student_GetUpcomingExams", Get(student_id),
                       sp_Student_GetUpcomingExams(Get(student_id)),
                       "upcoming exams", fault)

\* GET /api/test-db: no authentication; an exception is answered 200 with its text
test_database(store, fault) ==
    IF fault = "query"
        THEN [http |-> [status |-> 200, headers |-> NoHeaders,
                        body |-> [status |-> "error", message |-> ExceptionText]],
              calls |-> <<<<"SELECT COUNT(*) FROM dbo.Student", 0>>>>]
        ELSE [http |-> [status |-> 200, headers |-> NoHeaders,
                        body |-> [status |-> "success",
                                  student_count |-> Cardinality(
                                      {i \in DOMAIN store :
                                          ~IsNone(store[i].student_id)})]],
              calls |-> <<<<"SELECT COUNT(*) FROM dbo.Student", 0>>>>]

\* backend/app/api/dashboard.py, GET /stats: no authentication.  Of the
\* statistics two counts are kept.  The procedure returns one row of
\* nullable columns, no row, or fails.
sp_Manager_GetSystemDashboard(store) ==
    << Some(Cardinality({i \in DOMAIN store : ~IsNone(store[i].student_id)})),
       Some(Cardinality({i \in DOMAIN store : ~IsNone(store[i].instructor_id)})) >>

SpOutcomes == {"row", "no_row", "raises"}
DirectOutcomes == {"ok", "raises"}

\* DashboardStats(total_students = row[0] or 0, total_instructors = row[2] or 0)
DashboardStats(row) ==
    [total_students |-> IF IsNone(row[1]) THEN 0 ELSE Get(row[1]),
     total_instructors |-> IF IsNone(row[2]) THEN 0 ELSE Get(row[2])]

\* the direct queries; an exception of one of them is caught by nobody
get_dashboard_stats_fallback(store, direct, calls) ==
    IF direct = "raises"
        THEN [http |-> internal_server_error,
              calls |-> Append(calls, <<"SELECT MAX(Intake_ID) FROM Intake", 0>>)]
        ELSE [http |-> [status |-> 200, headers |-> NoHeaders,
                        body |-> [total_students |-> Cardinality(
                                      {i \in DOMAIN store :
                                          ~IsNone(store[i].student_id)}),
                                  total_instructors |-> Cardinality(
                                      {i \in DOMAIN store :
                                          ~IsNone(store[i].instructor_id)})]],
              calls |-> Append(calls, <<"SELECT MAX(Intake_ID) FROM Intake", 0>>)]

\* the try block of get_dashboard_stats: the exception it ends with, if any,
\* and the statistics it returns otherwise
get_dashboard_stats_try(store, sp) ==
    IF sp = "raises"
        THEN [raised |-> "OperationalError", http |-> internal_server_error]
    ELSE IF sp = "no_row"
        THEN [raised |-> "HTTPException",
              http |-> HTTPException(500, "No data returned from dashboard SP",
                                     NoHeaders)]
    ELSE [raised |-> "",
          http |-> [status |-> 200, headers |-> NoHeaders,
                    body |-> DashboardStats(sp_Manager_GetSystemDashboard(store))]]

\* fault: an HTTPException of the try block is raised again, as the
\* handlers of auth_api.py do
get_dashboard_stats_reraise(store, sp, direct) ==
    LET tried == get_dashboard_stats_try(store, sp)
        calls == <<<<"sp_Manager_GetSystemDashboard", 0>>>>
    IN
    IF tried.raised = "" \/ tried.raised = "HTTPException"
        THEN [http |-> tried.http, calls |-> calls]
        ELSE get_dashboard_stats_fallback(store, direct, calls)

\* GET /stats: "except Exception" catches whatever the try block raised
get_dashboard_stats(store, sp, direct) ==
    LET tried == get_dashboard_stats_try(store, sp)
        calls == <<<<"sp_Manager_GetSystemDashboard", 0>>>>
    IN
    IF tried.raised = ""
        THEN [http |-> tried.http, calls |-> calls]
        ELSE get_dashboard_stats_fallback(store, direct, calls)

DataEndpoints == {"/instructor/courses", "/instructor/exams",
                  "/student/grades", "/student/upcoming-exams"}

data_endpoint(endpoint, auth, store, utcnow, fault) ==
    CASE endpoint = "/instructor/courses" ->
            get_instructor_courses(auth, store, utcnow, fault)
      [] endpoint = "/instructor/exams" ->
            get_instructor_exams(auth, store, utcnow, fault)
      [] endpoint = "/student/grades" ->
            get_student_grades(auth, store, utcnow, fault)
      [] endpoint = "/student/upcoming-exams" ->
            get_upcoming_exams(auth, store, utcnow, fault)

DataFaults == {"none", "lookup", "query"}

----------------------------------------------------------------------------
(* Inputs of the requests *)

EmailInputs == {"a@x.com", "b@x.com", "nobody@x.com", "a@X.COM", "not-an-email"}
PasswordInputs == {"p1", "p2"}
OTHER_KEY == "another-secret"

\* environments the process may be started in: nothing set, or a deployment
\* that sets its own secret and a one-hour time-to-live
Environments ==
    { <<>>, [JWT_SECRET |-> "deployment-secret", JWT_EXPIRES_MINUTES |-> 60] }

\* passwords given to the password functions directly: empty, short, with a
\* character outside ASCII, of exactly 72 bytes, and two of 73 bytes
Bytes72 == "012345678901234567890123456789012345678901234567890123456789012345678901"
PasswordSamples == {"", "p1", "p2", "pé", Bytes72, Bytes72 \o "a", Bytes72 \o "b"}
Salts == {7, 8}

\* hash strings given to verify_password: what get_password_hash returns for
\* the samples, the empty string and a string that is no bcrypt hash
HashSamples ==
    {EmptyHash, MalformedHash}
    \cup {get_password_hash(password, salt) :
                password \in PasswordSamples, salt \in Salts}

RoleLists == {<<"Manager">>, <<"Instructor">>, <<"Student">>,
              <<"Manager", "Instructor">>}

Signed(key, sub, email, user_type, exp) ==
    [form |-> "jws", key |-> key,
     claims |-> Some([sub |-> sub, email |-> Some(email),
                      user_type |-> Some(user_type), exp |-> Some(exp)])]

WithExp(token, exp) ==
    [token EXCEPT !.claims = Some([Get(@) EXCEPT !.exp = exp])]

\* expiry, in seconds, of a token issued at time 0 with the default time-to-live
FarExp == timegm(timedelta_minutes(ACCESS_TOKEN_EXPIRE_MINUTES))

\* token strings a caller may send without having been issued one
ForgedTokens ==
    { Signed(SECRET_KEY, SubDigits(1), "a@x.com", "Instructor", FarExp),
      Signed(SECRET_KEY, SubDigits(1), "evil@x.com", "Manager", FarExp),
      Signed(SECRET_KEY, SubDigits(2), "b@x.com", "Student", FarExp),
      Signed(SECRET_KEY, SubDigits(9), "a@x.com", "Manager", FarExp),
      Signed(SECRET_KEY, SubInt(1), "a@x.com", "Instructor", FarExp),
      Signed(SECRET_KEY, SubAbsent, "a@x.com", "Instructor", FarExp),
      Signed(SECRET_KEY, SubText, "a@x.com", "Instructor", FarExp),
      Signed(SECRET_KEY, SubDigits(1), "a@x.com", "Instructor", 0),
      Signed(OTHER_KEY, SubDigits(1), "a@x.com", "Instructor", FarExp),
      Signed(OTHER_KEY, SubDigits(2), "b@x.com", "Manager", 0),
      WithExp(Signed(SECRET_KEY, SubDigits(1), "a@x.com", "Instructor", FarExp),
              NonNumber),
      Garbage }

\* what the Authorization header of the next request may carry
AuthInputs ==
    IF IsNone(held) THEN {None} \cup {Some(t) : t \in ForgedTokens}
                    ELSE {Some(Get(held).token)}

\* time-to-live arguments of create_access_token, in ticks
DeltaInputs == {None, Some(0), Some(1), Some(TicksPerSec)}

LongStep == timedelta_minutes(ACCESS_TOKEN_EXPIRE_MINUTES)

\* requests served concurrently, each by a worker of its own
Procs == {1, 2}
Idle == [pc |-> "idle"]

ConcRequests ==
    LET token1 == Signed(SECRET_KEY, SubDigits(1), "a@x.com", "Instructor", FarExp)
        token2 == Signed(SECRET_KEY, SubDigits(2), "b@x.com", "Student", FarExp)
    IN
    { [endpoint |-> "/login-form", email |-> "a@x.com", password |-> "p1"],
      [endpoint |-> "/login-form", email |-> "b@x.com", password |-> "p2"],
      [endpoint |-> "/login-form", email |-> "b@x.com", password |-> "p1"],
      [endpoint |-> "/me", auth |-> Some(token1)],
      [endpoint |-> "/me", auth |-> Some(token2)],
      [endpoint |-> "/me", auth |-> Some(Garbage)],
      [endpoint |-> "/me", auth |-> Some(WithExp(token1, NonNumber))],
      [endpoint |-> "role", auth |-> Some(token1), allowed_roles |-> <<"Instructor">>],
      [endpoint |-> "role", auth |-> Some(token2), allowed_roles |-> <<"Instructor">>] }

----------------------------------------------------------------------------
Init ==
    /\ users \in {[UserTable EXCEPT ![2].is_active = b] : b \in BOOLEAN}
    /\ now = 0
    /\ held = None
    /\ resp = None
    /\ inflight = [p \in Procs |-> Idle]
    /\ sessions = 0

\* the response of a login request, and the token the client keeps from it
LoginDone(endpoint, email, password, fault, r) ==
    /\ resp' = Some([endpoint |-> endpoint,
                     req |-> [email |-> email, password |-> password,
                              fault |-> fault],
                     http |-> r.http, calls |-> r.calls, user |-> r.user])
    /\ held' = IF IsNone(r.token) THEN held
               ELSE Some([token |-> Get(r.token), by |-> "login",
                          issued_at |-> now,
                          ttl |-> timedelta_minutes(ACCESS_TOKEN_EXPIRE_MINUTES),
                          logged_out |-> FALSE])
    /\ sessions' = get_db(sessions, exit_of(r.http))
    /\ UNCHANGED <<users, now, inflight>>

Login ==
    /\ IsNone(resp) /\ IsNone(held)
    /\ \E email \in EmailInputs, password \in PasswordInputs, fault \in Faults :
        \E r \in {login([email |-> email, password |-> password], users, now, fault)} :
            LoginDone("/login", email, password, fault, r)

LoginForm ==
    /\ IsNone(resp) /\ IsNone(held)
    /\ \E email \in EmailInputs, password \in PasswordInputs, fault \in Faults :
        \E r \in {login_form([username |-> email, password |-> password],
                             users, now, fault)} :
            LoginDone("/login-form", email, password, fault, r)

\* a direct call of create_access_token for an active Identity, with the
\* subject written as a string
IssueToken ==
    /\ IsNone(resp) /\ IsNone(held)
    /\ \E u \in UserIds, delta \in DeltaInputs :
        /\ users[u].is_active
        /\ held' = Some([token |-> create_access_token(
                                     [sub |-> SubDigits(u),
                                      email |-> Some(users[u].email),
                                      user_type |-> Some(users[u].user_type)],
                                     delta, now),
                         by |-> "issue", issued_at |-> now,
                         ttl |-> IF IsNone(delta)
                                   THEN timedelta_minutes(ACCESS_TOKEN_EXPIRE_MINUTES)
                                   ELSE Get(delta),
                         logged_out |-> FALSE])
    /\ UNCHANGED <<users, now, resp, inflight, sessions>>

GetMe ==
    /\ IsNone(resp)
    /\ \E auth \in AuthInputs, fault \in {"none", "lookup"} :
        \E r \in {get_current_user_info(auth, users, now, fault)} :
            /\ resp' = Some([endpoint |-> "/me",
                             req |-> [auth |-> auth, fault |-> fault],
                             http |-> r.http, user |-> r.user,
                             calls |-> r.calls])
            /\ sessions' = get_db(sessions, exit_of(r.http))
    /\ UNCHANGED <<users, now, held, inflight>>

RoleEndpoint ==
    /\ IsNone(resp)
    /\ \E allowed \in RoleLists, auth \in AuthInputs, fault \in {"none", "lookup"} :
        \E r \in {role_endpoint(allowed, auth, users, now, fault)} :
            /\ resp' = Some([endpoint |-> "role",
                             req |-> [auth |-> auth, fault |-> fault,
                                      allowed_roles |-> allowed],
                             http |-> r.http, user |-> r.user,
                             calls |-> r.calls])
            /\ sessions' = get_db(sessions, exit_of(r.http))
    /\ UNCHANGED <<users, now, held, inflight>>

\* POST /logout; the client remembers that the token it holds was used for
\* a logout that succeeded
Logout ==
    /\ IsNone(resp)
    /\ \E auth \in AuthInputs, fault \in {"none", "lookup"} :
        \E r \in {logout(auth, users, now, fault)} :
            /\ resp' = Some([endpoint |-> "/logout",
                             req |-> [auth |-> auth, fault |-> fault],
                             http |-> r.http, user |-> r.user,
                          calls |-> r.calls])
            /\ users' = r.store
            /\ held' = IF r.http.status = 200 /\ ~IsNone(held)
                         THEN Some([Get(held) EXCEPT !.logged_out = TRUE])
                         ELSE held
            /\ sessions' = get_db(sessions, exit_of(r.http))
    /\ UNCHANGED <<now, inflight>>

\* the client reads the response
Receive ==
    /\ ~IsNone(resp)
    /\ resp' = None
    /\ UNCHANGED <<users, now, held, inflight, sessions>>

\* the client throws its token away
Discard ==
    /\ IsNone(resp) /\ ~IsNone(held)
    /\ held' = None
    /\ UNCHANGED <<users, now, resp, inflight, sessions>>

Tick ==
    /\ IsNone(resp)
    /\ now % LongStep < MaxExtra
    /\ now' = now + 1
    /\ UNCHANGED <<users, held, resp, inflight, sessions>>

\* a whole default time-to-live passes
Wait ==
    /\ IsNone(resp)
    /\ now < LongStep
    /\ now' = now + LongStep
    /\ UNCHANGED <<users, held, resp, inflight, sessions>>

\* external provisioning changes the user table
SetActive ==
    /\ IsNone(resp)
    /\ \E u \in UserIds, b \in BOOLEAN :
        users' = [users EXCEPT ![u].is_active = b]
    /\ UNCHANGED <<now, held, resp, inflight, sessions>>

SetRole ==
    /\ IsNone(resp)
    /\ \E r \in Roles :
        users' = [users EXCEPT ![1].user_type = r]
    /\ UNCHANGED <<now, held, resp, inflight, sessions>>

\* a request to one of the role-gated data endpoints
DataEndpoint ==
    /\ IsNone(resp)
    /\ \E endpoint \in DataEndpoints, auth \in AuthInputs, fault \in DataFaults :
        \E r \in {data_endpoint(endpoint, auth, users, now, fault)} :
            /\ resp' = Some([endpoint |-> endpoint,
                             req |-> [auth |-> auth, fault |-> fault],
                             http |-> r.http, calls |-> r.calls])
            /\ sessions' = get_db(sessions, exit_of(r.http))
    /\ UNCHANGED <<users, now, held, inflight>>

TestDatabase ==
    /\ IsNone(resp)
    /\ \E fault \in {"none", "query"} :
        \E r \in {test_database(users, fault)} :
            /\ resp' = Some([endpoint |-> "/api/test-db",
                             req |-> [auth |-> None, fault |-> fault],
                             http |-> r.http, calls |-> r.calls])
            /\ sessions' = get_db(sessions, exit_of(r.http))
    /\ UNCHANGED <<users, now, held, inflight>>

\* a request to GET /stats of the dashboard
GetDashboardStats ==
    /\ IsNone(resp)
    /\ \E sp \in SpOutcomes, direct \in DirectOutcomes :
        \E r \in {get_dashboard_stats(users, sp, direct)} :
            /\ resp' = Some([endpoint |-> "/stats",
                             req |-> [auth |-> None, fault |-> sp, direct |-> direct],
                             http |-> r.http, calls |-> r.calls])
            /\ sessions' = get_db(sessions, exit_of(r.http))
    /\ UNCHANGED <<users, now, held, inflight>>

\* a direct call of get_password_hash
HashPassword ==
    /\ IsNone(resp)
    /\ \E password \in PasswordSamples, salt \in Salts, build \in BcryptBuilds :
        resp' = Some([endpoint |-> "get_password_hash",
                      req |-> [password |-> password, salt |-> salt,
                               build |-> build],
                      result |-> get_password_hash_result(password, salt, build)])
    /\ UNCHANGED <<users, now, held, inflight, sessions>>

\* a direct call of verify_password
VerifyPassword ==
    /\ IsNone(resp)
    /\ \E plain \in PasswordSamples, hashed \in HashSamples, build \in BcryptBuilds :
        resp' = Some([endpoint |-> "verify_password",
                      req |-> [plain |-> plain, hashed |-> hashed,
                               build |-> build],
                      result |-> verify_password_result(plain, hashed, build)])
    /\ UNCHANGED <<users, now, held, inflight, sessions>>

\* external provisioning changes the linkage ids of the user table
SetLinkage ==
    /\ IsNone(resp)
    /\ \E id \in {None, Some(0), Some(10)} :
        users' = [users EXCEPT ![1].instructor_id = id]
    /\ UNCHANGED <<now, held, resp, inflight, sessions>>

----------------------------------------------------------------------------
(* Concurrent service.  A request is served in steps: the part of its      *)
(* handler before the lookup, the lookup in the Credential Store, the rest  *)
(* of the handler.  What a handler keeps between the steps is in local      *)
(* variables, the frame of its worker; the module-level names of auth.py    *)
(* and auth_api.py are assigned once, at import.                            *)

\* fault: the argument of the lookup is kept in a module-level variable that
\* a request accepted later overwrites
lookup_arg_shared(frames, p) ==
    IF \E q \in Procs \ {p} :
            /\ frames[q].pc = "accepted"
            /\ (frames[q].req.endpoint = "/login-form")
                    = (frames[p].req.endpoint = "/login-form")
        THEN frames[CHOOSE q \in Procs \ {p} : frames[q].pc = "accepted"].arg
        ELSE frames[p].arg

\* the argument a worker makes its lookup with: the email of its request
\* (get_user_from_db) or token_data.user_id of its token (get_current_user)
lookup_arg(frames, p) == frames[p].arg

\* the response of a session request, given the outcome of get_current_user
session_reply(req, current) ==
    IF req.endpoint = "/me"
        THEN user_info(current)
        ELSE role_greeting(req.allowed_roles,
                           role_checker(req.allowed_roles, current))

\* a worker takes a request and runs its handler up to the lookup
Accept ==
    /\ IsNone(resp)
    /\ \E p \in Procs, req \in ConcRequests :
        /\ inflight[p].pc = "idle"
        /\ inflight' = [inflight EXCEPT ![p] =
            IF req.endpoint = "/login-form"
                THEN [pc |-> "accepted", req |-> req, arg |-> req.email]
            ELSE LET before == get_current_user_decode(req.auth, now) IN
                IF before.ok
                    THEN [pc |-> "accepted", req |-> req,
                          arg |-> Get(before.token_data).user_id]
                    ELSE [pc |-> "done", req |-> req, seen |-> users,
                          http |-> session_reply(req,
                                      [ok |-> FALSE, exc |-> before.exc,
                                       user |-> None, calls |-> <<>>]).http]]
        /\ sessions' = IF inflight'[p].pc = "done"
                          THEN get_db(sessions, exit_of(inflight'[p].http))
                          ELSE SessionLocal(sessions)
    /\ UNCHANGED <<users, now, held, resp>>

\* the lookup: sp_AuthenticateUser by email or sp_GetUserByID by id
Lookup ==
    /\ IsNone(resp)
    /\ \E p \in Procs :
        /\ inflight[p].pc = "accepted"
        /\ inflight' = [inflight EXCEPT ![p] =
            [pc |-> "looked", req |-> @.req, seen |-> users,
             calls |-> <<<<IF @.req.endpoint = "/login-form"
                             THEN "sp_AuthenticateUser" ELSE "sp_GetUserByID",
                           lookup_arg(inflight, p)>>>>,
             row |-> IF @.req.endpoint = "/login-form"
                       THEN get_user_from_db(lookup_arg(inflight, p), users, "none")
                       ELSE sp_GetUserByID(users, lookup_arg(inflight, p))]]
    /\ UNCHANGED <<users, now, held, resp, sessions>>

\* the rest of the handler, from the row the lookup returned
Reply ==
    /\ IsNone(resp)
    /\ \E p \in Procs :
        /\ inflight[p].pc = "looked"
        /\ inflight' = [inflight EXCEPT ![p] =
            [pc |-> "done", req |-> @.req, seen |-> @.seen,
             http |-> IF @.req.endpoint = "/login-form"
                        THEN login_reply(@.req.email,
                                 authenticate_found(@.row, @.req.password),
                                 now, "none").http
                        ELSE session_reply(@.req,
                                 get_current_user_found(@.row, @.calls)).http]]
        /\ sessions' = get_db_exit(sessions, exit_of(inflight'[p].http))
    /\ UNCHANGED <<users, now, held, resp>>

\* the response is sent and the worker is free again
Collect ==
    /\ IsNone(resp)
    /\ \E p \in Procs :
        /\ inflight[p].pc = "done"
        /\ inflight' = [inflight EXCEPT ![p] = Idle]
    /\ UNCHANGED <<users, now, held, resp, sessions>>

Next ==
    \/ Login \/ LoginForm \/ IssueToken \/ GetMe \/ RoleEndpoint \/ Logout
    \/ Receive \/ Discard \/ Tick \/ Wait \/ SetActive \/ SetRole

Spec == Init /\ [][Next]_vars

\* requests served by concurrent workers against the one Credential Store
ConcNext == Accept \/ Lookup \/ Reply \/ Collect \/ SetActive

ConcSpec == Init /\ [][ConcNext]_vars

\* direct calls of the two password functions
PwNext == HashPassword \/ VerifyPassword \/ Receive

PwSpec == Init /\ [][PwNext]_vars

\* the data endpoints, called with tokens the caller was not issued
DataNext ==
    \/ DataEndpoint \/ TestDatabase \/ GetDashboardStats \/ Receive
    \/ SetActive \/ SetRole \/ SetLinkage

DataSpec == Init /\ [][DataNext]_vars

----------------------------------------------------------------------------
(* Vocabulary of the properties, read off the request and the store *)

Pending == ~IsNone(resp)
R == Get(resp)
IsLogin == Pending /\ R.endpoint \in {"/login", "/login-form"}
IsSession == Pending /\ R.endpoint \in {"/me", "role", "/logout"}
IsRole == Pending /\ R.endpoint = "role"

\* login requests that reached authenticate_user with a store that answers
Looked == IsLogin /\ R.calls # <<>> /\ R.req.fault # "lookup"
LookedEmail == R.calls[1][2]
RowsOf(email) == {i \in UserIds : users[i].email = email}
Matches(password, row) ==
    row.password_hash.valid /\ row.password_hash.pw = encode(password)

IdentityOf(row, hash) ==
    [user_id |-> row.user_id, email |-> row.email, password_hash |-> hash,
     user_type |-> row.user_type, student_id |-> row.student_id,
     instructor_id |-> row.instructor_id, is_active |-> row.is_active,
     full_name |-> IF row.full_name \in {None, Some("")} THEN "User"
                   ELSE Get(row.full_name),
     profile |-> row.profile]

BadCredentials ==
    [status |-> 401, headers |-> {<<"WWW-Authenticate", "Bearer">>},
     body |-> [detail |-> "Incorrect email or password"]]

Unauthorized ==
    [status |-> 401, headers |-> {<<"WWW-Authenticate", "Bearer">>},
     body |-> [detail |-> "Could not validate credentials"]]

\* the token of a session request and why it would be refused, if at all
Sent == ~IsNone(R.req.auth)
Tok == Get(R.req.auth)
Subject == Get(Tok.claims).sub
TokenCause ==
    IF Tok.form # "jws" THEN "malformed"
    ELSE IF Tok.key # SECRET_KEY THEN "bad-signature"
    ELSE IF Len(Get(Tok.claims).exp) = 2 THEN "non-numeric-expiry"
    ELSE IF Len(Get(Tok.claims).exp) = 1
            /\ Get(Get(Tok.claims).exp) < now \div TicksPerSec THEN "expired"
    ELSE IF Subject.kind = "absent" THEN "missing-subject"
    ELSE IF Subject.kind # "digits" THEN "non-integer-subject"
    ELSE IF Subject.n \notin UserIds THEN "no-record"
    ELSE IF ~users[Subject.n].is_active THEN "inactive"
    ELSE "none"
Resolvable == Sent /\ TokenCause = "none" /\ R.req.fault = "none"

Contains(s, part) ==
    \E i \in 1..(Len(s) - Len(part) + 1) : SubSeq(s, i, i + Len(part) - 1) = part

\* login requests whose credentials the store accepts
Accepted ==
    \E i \in RowsOf(LookedEmail) :
        Matches(R.req.password, users[i]) /\ users[i].is_active

\* positions of the last-login update among the store calls of a login request
Touches == {i \in 1..Len(R.calls) : R.calls[i][1] = "sp_UpdateLastLogin"}

StoredHashes == {users[i].password_hash : i \in UserIds}

IsData == Pending /\ R.endpoint \in DataEndpoints \cup {"/api/test-db"}

IsHashCall == Pending /\ R.endpoint = "get_password_hash"
IsVerifyCall == Pending /\ R.endpoint = "verify_password"

IsLogout == Pending /\ R.endpoint = "/logout"

\* the session request carries the token the client made a successful logout with
LoggedOut == ~IsNone(held) /\ Get(held).logged_out /\ Sent /\ Tok = Get(held).token

\* the UTF-8 bytes of the sample passwords
BytesOf(password) ==
    [i \in 1..(Len(password) + (IF password = "pé" THEN 1 ELSE 0)) |->
        IF password = "pé" THEN <<"p", "C3", "A9">>[i] ELSE SubSeq(password, i, i)]

\* the response to a request served alone against a given store
Alone(req, store) ==
    CASE req.endpoint = "/login-form" ->
            login_form([username |-> req.email, password |-> req.password],
                       store, now, "none").http
      [] req.endpoint = "/me" ->
            get_current_user_info(req.auth, store, now, "none").http
      [] req.endpoint = "role" ->
            role_endpoint(req.allowed_roles, req.auth, store, now, "none").http

HeldToken == Get(held).token
HeldClaims == Get(HeldToken.claims)
HeldExpiry == Get(held).issued_at + Get(held).ttl

----------------------------------------------------------------------------
\* C1: authenticate_user returns the stored Identity exactly when the store
\* has a record for the email, the password verifies against its hash and the
\* record is active; in every other case it returns None.
C1_AuthenticateExact ==
    Looked =>
        IF \E i \in RowsOf(LookedEmail) :
              Matches(R.req.password, users[i]) /\ users[i].is_active
            THEN \E i \in RowsOf(LookedEmail) :
                    R.user = Some(IdentityOf(users[i], users[i].password_hash))
            ELSE R.user = None

C1_Witness ==
    /\ Looked
    /\ ~IsNone(R.user)
    /\ Get(R.user).full_name = "User"

\* C2: an inactive Identity never authenticates, even with the correct
\* password, and a request carrying a token of an Identity that is inactive
\* in the store is answered 401, also when the token was issued before the
\* deactivation and has not expired.
C2_InactiveRejected ==
    /\ (IsLogin /\ R.calls # <<>>
            /\ \A i \in RowsOf(LookedEmail) : ~users[i].is_active)
        => (R.user = None /\ R.http.status = 401)
    /\ (IsSession /\ Sent /\ Tok.form = "jws" /\ Subject.n \in UserIds
            /\ ~decode_outcome(Tok, now).raised
            /\ ~users[Subject.n].is_active)
        => (R.user = None /\ R.http.status = 401)

C2_Witness ==
    /\ IsSession /\ ~IsNone(held) /\ Sent /\ Tok = HeldToken
    /\ Get(held).by = "issue"
    /\ now < HeldExpiry
    /\ ~IsNone(decode_access_token(HeldToken, now))
    /\ ~users[Subject.n].is_active
    /\ R.http.status = 401

\* C3: decoding the token a successful login issued, at any time before its
\* expiry, returns its claims: the user_id, email and user_type of the
\* Identity that logged in.
C3_LoginTokenRoundTrip ==
    (~IsNone(held) /\ Get(held).by = "login" /\ now < HeldExpiry)
        => decode_access_token(HeldToken, now)
             = Some([user_id |-> HeldClaims.sub.n, email |-> HeldClaims.email,
                     user_type |-> HeldClaims.user_type])

\* C4: a token issued at time t with a (positive) time-to-live ttl is
\* rejected as expired at every time now >= t + ttl, the instant t + ttl
\* included.
C4_ExpiredFromExpiry ==
    (~IsNone(held) /\ Get(held).by = "issue" /\ Get(held).ttl > 0
            /\ now >= HeldExpiry)
        => decode_outcome(HeldToken, now)
             = [result |-> None, reason |-> "expired", raised |-> FALSE]

\* C5: a token signed with a secret other than the server's always fails
\* decode_access_token with the reason bad-signature and never yields claims.
C5_ForeignSecretRejected ==
    (IsSession /\ Sent /\ Tok.form = "jws" /\ Tok.key # SECRET_KEY)
        => /\ decode_outcome(Tok, now)
                = [result |-> None, reason |-> "bad-signature", raised |-> FALSE]
           /\ R.user = None
           /\ R.http.status = 401

C5_Witness ==
    /\ IsSession /\ Sent /\ Tok.form = "jws" /\ Tok.key # SECRET_KEY
    /\ Subject.n \in UserIds /\ users[Subject.n].is_active
    /\ Get(Get(Tok.claims).exp) >= now \div TicksPerSec

\* C6: on /login and /login-form an unknown email, a wrong password and an
\* inactive account all get the same response: 401, "Incorrect email or
\* password", WWW-Authenticate: Bearer.
C6_LoginFailuresAlike ==
    (Looked /\ \A i \in RowsOf(LookedEmail) :
                  ~Matches(R.req.password, users[i]) \/ ~users[i].is_active)
        => R.http = BadCredentials

C6_Witness ==
    /\ Looked
    /\ R.endpoint = "/login-form"
    /\ \E i \in RowsOf(LookedEmail) :
          Matches(R.req.password, users[i]) /\ ~users[i].is_active
    /\ R.http = BadCredentials

\* C7: every rejection by get_current_user that the token or the identity
\* causes (malformed, bad signature, expired, missing or non-integer subject,
\* no record, inactive record) gives 401, "Could not validate credentials",
\* WWW-Authenticate: Bearer.
C7_OneUnauthorizedSignal ==
    (IsSession /\ Sent /\ R.req.fault = "none"
        /\ TokenCause \in {"malformed", "bad-signature", "expired",
                           "missing-subject", "non-integer-subject",
                           "no-record", "inactive"})
        => R.http = Unauthorized

C7_Witness ==
    /\ IsSession /\ Sent /\ R.req.fault = "none"
    /\ TokenCause = "no-record"
    /\ R.http = Unauthorized

\* C8: the Identity get_current_user returns and the decision of the role
\* gate are those of the store's current record for the token's subject id,
\* whatever email and user_type the token carries.
C8_StoreDecides ==
    (IsSession /\ Resolvable) =>
        LET row == users[Subject.n] IN
        /\ R.http.status \in {200, 403}
        /\ R.http.status = 200 => R.user = Some(IdentityOf(row, EmptyHash))
        /\ IsRole => (R.http.status = 200 <=> InList(row.user_type, R.req.allowed_roles))

C8_Witness ==
    /\ IsRole /\ Resolvable
    /\ ~IsNone(held) /\ Tok = HeldToken /\ now < HeldExpiry
    /\ Get(Tok.claims).user_type # Some(users[Subject.n].user_type)
    /\ ~InList(Get(Get(Tok.claims).user_type), R.req.allowed_roles)
    /\ R.http.status = 200

\* C9: the checker built by require_role returns the resolved Identity
\* unchanged exactly when its user_type is in the allowed list, and otherwise
\* answers 403 with a detail that names every required role.
C9_RoleGate ==
    (IsRole /\ Resolvable) =>
        LET row == users[Subject.n]
            allowed == R.req.allowed_roles
        IN
        IF InList(row.user_type, allowed)
            THEN R.user = Some(IdentityOf(row, EmptyHash))
            ELSE /\ R.user = None
                 /\ R.http.status = 403
                 /\ \A i \in 1..Len(allowed) : Contains(R.http.body.detail, allowed[i])

C9_Witness ==
    /\ IsRole /\ Resolvable
    /\ Len(R.req.allowed_roles) = 2
    /\ R.http.status = 403

\* C10: on a role-gated endpoint 403 is answered only when the token resolved
\* to an active Identity; a missing, invalid or expired token, or an inactive
\* or absent Identity, gets 401 and never 403.
C10_UnauthorizedBeforeForbidden ==
    IsRole =>
        /\ R.http.status = 403 => (Sent /\ TokenCause = "none")
        /\ (~Sent \/ TokenCause # "none") => R.http.status = 401

C10_Witness ==
    /\ IsRole /\ Sent /\ TokenCause = "inactive"
    /\ ~InList(users[Subject.n].user_type, R.req.allowed_roles)
    /\ R.http.status = 401

\* C11: the Identity get_current_user returns has its password_hash cleared,
\* and the response bodies of /login, /login-form and /me carry no stored
\* password hash, neither in the user object nor in the claims of the token.
C11_HashStaysInside ==
    /\ (IsSession /\ ~IsNone(R.user)) => Get(R.user).password_hash = EmptyHash
    /\ (Pending /\ R.endpoint \in {"/login", "/login-form", "/me"}
            /\ R.http.status = 200) =>
        LET body == R.http.body
            shown == IF IsLogin THEN body.user ELSE body
        IN
        /\ "password_hash" \in DOMAIN shown =>
                shown.password_hash \notin StoredHashes
        /\ IsLogin =>
                DOMAIN Get(body.access_token.claims)
                    = {"sub", "email", "user_type", "exp"}

C11_Witness ==
    /\ IsLogin /\ R.http.status = 200
    /\ Get(R.user).password_hash \in StoredHashes
    /\ R.http.body.user.user_id = Get(R.user).user_id

\* C12: when the store raises during the lookup of a login request the
\* response is a server error (5xx) and not the bad-credentials response.
C12_StoreFailureIsServerError ==
    (IsLogin /\ R.calls # <<>> /\ R.req.fault = "lookup")
        => (R.http.status >= 500 /\ R.http # BadCredentials)

\* C13: when a data-store call fails inside a handler (instructor courses and
\* exams, student grades and upcoming exams, test-db), the text of the
\* internal exception appears nowhere in the response body.
C13_NoDiagnosticDetail ==
    (IsData /\ R.req.fault = "query") =>
        \A field \in DOMAIN R.http.body \cap {"detail", "message"} :
            ~Contains(R.http.body[field], ExceptionText)

\* C14: when the last-login update or its commit fails after the credentials
\* were accepted, the login request still answers 200 with the token and the
\* user object of the authenticated Identity.
C14_LastLoginBestEffort ==
    (Looked /\ R.req.fault \in {"update", "commit"} /\ Accepted) =>
        \E i \in RowsOf(LookedEmail) :
            /\ R.http.status = 200
            /\ R.http.headers = {}
            /\ R.http.body.token_type = "bearer"
            /\ R.http.body.access_token.form = "jws"
            /\ Get(R.http.body.access_token.claims).sub.n = i
            /\ R.http.body.user.user_id = i
            /\ R.http.body.user.email = users[i].email

C14_Witness ==
    /\ Looked /\ R.req.fault = "commit" /\ Accepted
    /\ R.endpoint = "/login"
    /\ R.http.status = 200

\* C15: a login request invokes the last-login update exactly once, for the
\* user_id of the authenticated Identity, when it succeeds, and never when it
\* is rejected (unknown email, wrong password, inactive account).
C15_TouchOnlyOnSuccess ==
    IsLogin =>
        IF R.http.status = 200
            THEN /\ Cardinality(Touches) = 1
                 /\ \A i \in Touches : R.calls[i][2] = R.http.body.user.user_id
            ELSE Touches = {}

C15_Witness ==
    /\ Looked /\ ~Accepted
    /\ \E i \in RowsOf(LookedEmail) : Matches(R.req.password, users[i])
    /\ Touches = {}

\* C16: a logout request with a missing or invalid token is answered 401, and
\* the token a successful logout was made with keeps resolving on later
\* requests while it is unexpired and its Identity active.
C16_LogoutStateless ==
    /\ (IsLogout /\ (~Sent \/ TokenCause # "none")) => R.http.status = 401
    /\ (IsSession /\ LoggedOut /\ Resolvable)
        => (R.http.status \in {200, 403} /\ (R.http.status = 200 => ~IsNone(R.user)))

\* C17: decode_access_token raises for no token string; every token it does
\* not accept gives the value None.
C17_DecodeNeverRaises ==
    (IsSession /\ Sent) =>
        LET d == decode_outcome(Tok, now) IN
        /\ ~d.raised
        /\ TokenCause \in {"malformed", "bad-signature", "non-numeric-expiry",
                            "expired", "missing-subject", "non-integer-subject"}
            => d.result = None

\* C18: verify_password raises for no password and no hash string: it returns
\* a boolean, and for an empty or malformed hash the same False it returns
\* for a wrong password.
C18_VerifyNeverRaises ==
    IsVerifyCall =>
        /\ ~R.result.raised
        /\ R.result.value \in BOOLEAN
        /\ ~R.req.hashed.valid => R.result = [raised |-> FALSE, value |-> FALSE]
        /\ (R.req.hashed.valid /\ R.req.hashed.pw # BytesOf(R.req.plain)
                /\ Len(BytesOf(R.req.plain)) <= 72)
            => R.result = [raised |-> FALSE, value |-> FALSE]

C18_Witness ==
    /\ IsVerifyCall
    /\ R.req.hashed = MalformedHash
    /\ R.req.plain = "p1"
    /\ R.result.value = FALSE

\* C19: get_password_hash(p) yields a hash for every password p, and
\* verify_password(q, get_password_hash(p)) is true exactly when q = p.
C19_HashVerifyRoundTrip ==
    /\ IsHashCall => ~R.result.raised
    /\ IsVerifyCall =>
        \A p \in PasswordSamples :
            LET h == get_password_hash_result(p, R.req.hashed.salt, R.req.build) IN
            (~h.raised /\ h.hash = R.req.hashed)
                => (R.result.value <=> R.req.plain = p)

\* C20: the response of every request served concurrently with others is the
\* response the same request gets when served alone against the Credential
\* Store as it was at the moment of its own lookup.
C20_RequestsIndependent ==
    \A p \in Procs :
        inflight[p].pc = "done" =>
            inflight[p].http = Alone(inflight[p].req, inflight[p].seen)

C20_Witness ==
    /\ inflight[1].pc = "done" /\ inflight[1].req.endpoint = "/me"
    /\ inflight[1].http.status = 200
    /\ inflight[1].seen # users
    /\ inflight[2].pc = "looked" /\ inflight[2].req.endpoint = "role"
    /\ inflight[2].req.auth # inflight[1].req.auth
    /\ inflight[2].seen # inflight[1].seen

\* C22: create_access_token sets the expiry claim to exactly the issue time
\* plus the ttl it was given, a ttl of zero included; the 24-hour default
\* is used only when no ttl was passed.
C22_ExpiryIsNowPlusTtl ==
    (~IsNone(held) /\ Get(held).by = "issue")
        => HeldClaims.exp = Some(timegm(HeldExpiry))

\* C23: the token of a successful login carries the user_id of the
\* authenticated Identity as subject, its email, its user_type and the
\* expiry, and no other claim; no claim is the password hash.
C23_LoginTokenClaims ==
    (IsLogin /\ R.http.status = 200) =>
        LET claims == Get(R.http.body.access_token.claims)
            identity == Get(R.user)
        IN
        /\ \E i \in RowsOf(LookedEmail) :
                /\ identity.user_id = i
                /\ identity.email = users[i].email
                /\ identity.user_type = users[i].user_type
        /\ claims = [sub |-> SubInt(identity.user_id),
                     email |-> Some(identity.email),
                     user_type |-> Some(identity.user_type),
                     exp |-> claims.exp]
        /\ "password_hash" \notin DOMAIN claims
        /\ ~IsNone(held) /\ HeldToken = R.http.body.access_token

C23_Witness ==
    /\ IsLogin /\ R.http.status = 200
    /\ Get(R.user).user_type = "Student"
    /\ HeldClaims.sub = SubInt(2)

\* C24: a login request that reaches authenticate_user makes exactly one
\* lookup by email; a session request makes no store call when its token is
\* missing or fails decode_access_token, and otherwise exactly one lookup,
\* by the id of the token's subject, whether or not the lookup succeeds.
C24_OneLookupPerRequest ==
    /\ (IsLogin /\ R.http.status # 422) =>
            /\ {i \in 1..Len(R.calls) : R.calls[i][1] = "sp_AuthenticateUser"} = {1}
            /\ \A i \in 1..Len(R.calls) : R.calls[i][1] # "sp_GetUserByID"
    /\ (IsSession /\ ~Sent) => R.calls = <<>>
    /\ (IsSession /\ Sent) =>
            LET decoded == decode_outcome(Tok, now) IN
            IF IsNone(decoded.result)
                THEN R.calls = <<>>
                ELSE R.calls = <<<<"sp_GetUserByID", Get(decoded.result).user_id>>>>

C24_Witness ==
    /\ IsSession /\ Sent /\ R.req.fault = "none" /\ TokenCause = "no-record"
    /\ R.http = Unauthorized
    /\ Len(R.calls) = 1

\* C25: token issue and token verification use the secret, the algorithm and
\* the time-to-live of the configuration loaded at startup: a login token is
\* signed with Settings.jwt_secret and expires jwt_expires_minutes after its
\* issue, and a token that is not signed with Settings.jwt_secret resolves
\* to no Identity.
C25_ConfiguredValuesUsed ==
    \A env \in Environments :
        LET settings == Settings(env) IN
        /\ (~IsNone(held) /\ Get(held).by = "login") =>
                /\ HeldToken.key = settings.jwt_secret
                /\ ALGORITHM = settings.jwt_algorithm
                /\ HeldClaims.exp = Some(timegm(Get(held).issued_at
                        + timedelta_minutes(settings.jwt_expires_minutes)))
        /\ (IsSession /\ Sent /\ Tok.form = "jws"
                /\ Tok.key # settings.jwt_secret) => R.user = None

\* the role a data endpoint requires, its stored procedure, and the value
\* of a store record that the procedure is to be called with
RequiredRole(endpoint) ==
    IF endpoint \in {"/instructor/courses", "/instructor/exams"}
        THEN "Instructor" ELSE "Student"
ProcedureOf(endpoint) ==
    CASE endpoint = "/instructor/courses" -> "sp_Instructor_GetMyCourses"
      [] endpoint = "/instructor/exams" -> "sp_Instructor_GetMyExams"
      [] endpoint = "/student/grades" -> "sp_ViewStudentGradesByEmail"
      [] endpoint = "/student/upcoming-exams" -> "sp_Student_GetUpcomingExams"
OwnKey(endpoint, row) ==
    CASE endpoint \in {"/instructor/courses", "/instructor/exams"} ->
            Get(row.instructor_id)
      [] endpoint = "/student/grades" -> row.email
      [] endpoint = "/student/upcoming-exams" -> Get(row.student_id)
IsGated == Pending /\ R.endpoint \in DataEndpoints
CalledProcedure ==
    \E i \in 1..Len(R.calls) : R.calls[i][1] # "sp_GetUserByID"

\* C27: a data endpoint calls its stored procedure only when the token
\* resolves to an active record of the store whose role is the one the
\* endpoint requires, only after the lookup of that record, and with the
\* instructor_id, student_id or email of that record.
C27_OwnDataOnly ==
    (IsGated /\ CalledProcedure) =>
        /\ Sent /\ TokenCause = "none" /\ R.req.fault # "lookup"
        /\ users[Subject.n].user_type = RequiredRole(R.endpoint)
        /\ R.calls = << <<"sp_GetUserByID", Subject.n>>,
                        <<ProcedureOf(R.endpoint),
                          OwnKey(R.endpoint, users[Subject.n])>> >>

C27_Witness ==
    /\ IsGated /\ R.endpoint = "/student/grades" /\ R.http.status = 200
    /\ Get(Tok.claims).email = Some("evil@x.com")
    /\ R.calls[2] = <<"sp_ViewStudentGradesByEmail", "a@x.com">>

\* the linkage id an endpoint needs of the record its caller resolved to
LinkageId(endpoint, row) ==
    IF endpoint = "/student/upcoming-exams" THEN row.student_id
                                            ELSE row.instructor_id

\* C28: when the caller of an instructor endpoint or of upcoming-exams
\* resolves to an active record of the required role that has no linkage
\* id, the response is the 400 "... ID not found in user profile", whatever
\* the store would do with a query, and no stored procedure is called.
C28_MissingLinkageIs400 ==
    (IsGated /\ R.endpoint # "/student/grades"
            /\ Sent /\ TokenCause = "none" /\ R.req.fault # "lookup"
            /\ users[Subject.n].user_type = RequiredRole(R.endpoint)
            /\ IsNone(LinkageId(R.endpoint, users[Subject.n]))) =>
        /\ R.http = [status |-> 400, headers |-> NoHeaders,
                     body |-> [detail |-> RequiredRole(R.endpoint)
                                  \o " ID not found in user profile"]]
        /\ ~CalledProcedure

C28_Witness ==
    /\ IsGated /\ R.endpoint = "/student/upcoming-exams"
    /\ R.req.fault = "query" /\ R.http.status = 400
    /\ users[Subject.n].student_id = None

\* what the other login endpoint answers to the credentials of the pending
\* login request, against the same store at the same time
OtherLogin ==
    IF R.endpoint = "/login"
        THEN login_form([username |-> R.req.email, password |-> R.req.password],
                        users, now, R.req.fault)
        ELSE login([email |-> R.req.email, password |-> R.req.password],
                   users, now, R.req.fault)

\* C29: /login and /login-form are equivalent: for the same email, the same
\* password and the same store they answer with the same status and body
\* (user object and token) and make the same store calls, the last-login
\* update included.
C29_LoginEndpointsEquivalent ==
    IsLogin =>
        /\ R.http = OtherLogin.http
        /\ R.user = OtherLogin.user
        /\ R.calls = OtherLogin.calls

IsDashboard == Pending /\ R.endpoint = "/stats"

\* C26: get_dashboard_stats runs the direct-query fallback whenever its
\* stored-procedure path ends with an exception, its own 500 "No data
\* returned from dashboard SP" included; that 500 is never the response, and
\* the response is an error only when the fallback ran and failed.
C26_FallbackOnAnyException ==
    IsDashboard =>
        /\ R.http # HTTPException(500, "No data returned from dashboard SP",
                                  NoHeaders)
        /\ (R.req.fault # "row") =>
                /\ Len(R.calls) = 2
                /\ R.http = get_dashboard_stats_fallback(users, R.req.direct,
                                                         <<>>).http
        /\ (R.req.fault = "row") => (Len(R.calls) = 1 /\ R.http.status = 200)
        /\ (R.http.status # 200) =>
                (R.req.fault # "row" /\ R.req.direct = "raises")

C26_Witness ==
    /\ IsDashboard /\ R.req.fault = "no_row" /\ R.req.direct = "ok"
    /\ R.http.status = 200 /\ Len(R.calls) = 2

InService == {p \in Procs : inflight[p].pc \in {"accepted", "looked"}}

\* C21: the session get_db gives a request is closed when the request ends,
\* whether the handler returned, raised an HTTPException or raised another
\* exception: the sessions that are open are those of the requests in
\* service, and none is open when no request is in service.
C21_SessionsClosed ==
    sessions = Cardinality(InService)

C21_Witness ==
    /\ sessions = 0
    /\ \E p, q \in Procs :
        /\ inflight[p].pc = "done" /\ inflight[p].http = internal_server_error
        /\ inflight[q].pc = "done" /\ inflight[q].http.status = 401
        /\ inflight[q].req.endpoint = "/login-form"

====
